---- MODULE Spec2Model ----
(***************************************************************************)
(* Model of libstd/rt/local_ptr.rs: the runtime's single thread-local      *)
(* pointer, in its two implementations (`compiled`, a #[thread_local]      *)
(* static, and `native`, a key of rt::thread_local_storage created under a *)
(* mutex), and the backend-independent `borrow`.                           *)
(*                                                                         *)
(* Owned boxes (~T) are heap addresses 1..MaxAddr; cast::transmute of a    *)
(* box to *mut c_void keeps the address bits, so the stored word is the    *)
(* address and 0 is the null pointer.  heap[a] is the one field of the     *)
(* object at address a, or FREE.                                           *)
(***************************************************************************)
EXTENDS Integers, FiniteSets, TLC

\* ---------------------------------------------------------------- bounds
NThreads == 2
MaxAddr == 2
MaxField == 1
MaxKey == 1
MaxCreates == 2
MaxDestroys == 2

\* ------------------------------------------------------------- constants
NULL == 0
NoKey == -1
FREE == -1
NoThread == 0

Threads == 1..NThreads
\* The thread that runs a task: it owns boxes and uses its slot.  A call on the
\* slot reads and writes the cell (or the tls word) of the calling thread only,
\* so the other threads take part in init() and cleanup() and look at their
\* own, empty slots.
Users == {1}
Addrs == 1..MaxAddr
Words == 0..MaxAddr
Fields == 0..MaxField
Keys == 0..MaxKey

VARIABLES
    backend,      \* which module `pub use self::...::*` selected at build time
    RT_TLS_PTR,   \* compiled: the #[thread_local] static, one cell per thread
    LOCK,         \* native: the static mutex
    INITIALIZED,  \* native: static flag
    RT_TLS_KEY,   \* native: static key, -1 until created
    liveKeys,     \* platform: keys created and not yet destroyed
    tlsData,      \* platform: the word of each thread under each key
    heap,         \* contents of the boxes
    held,         \* boxes owned by the code running on each thread
    value_cell,   \* borrow: the box moved into the Cell while f runs
    pc,           \* position of each thread
    aborted,      \* rtabort! has terminated the process
    last,         \* the call, or step of a call, that completed most recently
    createCount,  \* invocations of tls::create
    destroyCount, \* invocations of tls::destroy
    overlapped    \* a cleanup() has run while another init() or cleanup() ran

vars == <<backend, RT_TLS_PTR, LOCK, INITIALIZED, RT_TLS_KEY, liveKeys, tlsData,
          heap, held, value_cell, pc, aborted, last, createCount, destroyCount,
          overlapped>>

keyState == <<LOCK, INITIALIZED, RT_TLS_KEY, liveKeys, createCount, destroyCount,
              overlapped>>

Done(o, t, val, some, ok) ==
    [op |-> o, thread |-> t, val |-> val, some |-> some, ok |-> ok]

Init ==
    /\ backend \in {"compiled", "native"}
    /\ RT_TLS_PTR = [t \in Threads |-> NULL]
    /\ LOCK = [holder |-> NoThread, destroyed |-> FALSE, broken |-> FALSE]
    /\ INITIALIZED = FALSE
    /\ RT_TLS_KEY = NoKey
    /\ liveKeys = {}
    /\ tlsData = [k \in Keys |-> [t \in Threads |-> NULL]]
    /\ heap = [a \in Addrs |-> FREE]
    /\ held = [t \in Threads |-> {}]
    /\ value_cell = [t \in Threads |-> NULL]
    /\ pc = [t \in Threads |-> "idle"]
    /\ aborted = FALSE
    /\ last = Done("none", NoThread, NULL, FALSE, TRUE)
    /\ createCount = 0
    /\ destroyCount = 0
    /\ overlapped = FALSE

\* A thread can make a call from its own code or from inside a borrow callback.
\* The positions inside init() and inside cleanup().
InitPcs == {"init_locked", "init_created", "init_unlock"}
CleanupPcs == {"cleanup_key", "cleanup_lock", "cleanup_flag"}

CanCall(t) == ~aborted /\ pc[t] \in {"idle", "callback"}

\* rtabort!: the process ends; nothing else is touched.
Abort(o, t) ==
    /\ aborted' = TRUE
    /\ last' = Done(o, t, NULL, FALSE, FALSE)
    /\ UNCHANGED <<RT_TLS_PTR, keyState, tlsData, heap, held, value_cell, pc>>

\* ------------------------------------------------------- owners of boxes
\* The address the allocator gives to the next box: the lowest one not in use.
FreshBox ==
    LET free == {a \in Addrs : heap[a] = FREE} IN
    {a \in free : \A b \in free : a <= b}

\* The boxes thread t can pass to put: one it took out earlier, or one it
\* builds for the call (`put(~x)`).
Owned(t) == held[t] \cup FreshBox

\* The heap once the argument of put exists: a new box starts with field 0.
Boxed(sched) ==
    IF sched \in Addrs /\ heap[sched] = FREE THEN [heap EXCEPT ![sched] = 0] ELSE heap

\* --------------------------------------------------------- mod compiled
compiled_init(t) ==
    /\ ~aborted /\ pc[t] = "idle" /\ backend = "compiled"
    /\ last' = Done("init", t, NULL, FALSE, TRUE)
    /\ UNCHANGED <<backend, RT_TLS_PTR, keyState, tlsData, heap, held, value_cell, pc,
                   aborted>>

compiled_cleanup(t) ==
    /\ ~aborted /\ pc[t] = "idle" /\ backend = "compiled"
    /\ last' = Done("cleanup", t, NULL, FALSE, TRUE)
    /\ UNCHANGED <<backend, RT_TLS_PTR, keyState, tlsData, heap, held, value_cell, pc,
                   aborted>>

\* Mutant of compiled_put: a put on a slot that holds a value is fatal.
compiled_put_checked(t, sched) ==
    /\ CanCall(t) /\ backend = "compiled"
    /\ sched \in Owned(t)
    /\ IF RT_TLS_PTR[t] # NULL
       THEN Abort("put", t)
       ELSE /\ RT_TLS_PTR' = [RT_TLS_PTR EXCEPT ![t] = sched]
            /\ heap' = Boxed(sched)
            /\ held' = [held EXCEPT ![t] = @ \ {sched}]
            /\ last' = Done("put", t, sched, FALSE, TRUE)
            /\ UNCHANGED <<keyState, tlsData, value_cell, pc, aborted>>
    /\ UNCHANGED backend

\* RT_TLS_PTR = cast::transmute(sched): the old word is not looked at.
compiled_put(t, sched) ==
    /\ CanCall(t) /\ backend = "compiled"
    /\ sched \in Owned(t)
    /\ RT_TLS_PTR' = [RT_TLS_PTR EXCEPT ![t] = sched]
    /\ heap' = Boxed(sched)
    /\ held' = [held EXCEPT ![t] = @ \ {sched}]
    /\ last' = Done("put", t, sched, FALSE, TRUE)
    /\ UNCHANGED <<backend, keyState, tlsData, value_cell, pc, aborted>>

\* Mutant of compiled_take: the cell is not reset.
compiled_take_keep(t) ==
    /\ CanCall(t) /\ backend = "compiled"
    /\ LET ptr == RT_TLS_PTR[t] IN
        /\ held' = [held EXCEPT ![t] = @ \cup {ptr}]
        /\ last' = Done("take", t, ptr, TRUE, TRUE)
    /\ UNCHANGED <<backend, RT_TLS_PTR, keyState, tlsData, heap, value_cell, pc, aborted>>

\* No null check: a null cell is transmuted to a (null) ~T and returned.
compiled_take(t) ==
    /\ CanCall(t) /\ backend = "compiled"
    /\ LET ptr == RT_TLS_PTR[t] IN
        /\ RT_TLS_PTR' = [RT_TLS_PTR EXCEPT ![t] = NULL]
        /\ held' = [held EXCEPT ![t] = @ \cup {ptr}]
        /\ last' = Done("take", t, ptr, TRUE, TRUE)
    /\ UNCHANGED <<backend, keyState, tlsData, heap, value_cell, pc, aborted>>

compiled_unsafe_take(t) ==
    /\ CanCall(t) /\ backend = "compiled"
    /\ LET ptr == RT_TLS_PTR[t] IN
        /\ held' = [held EXCEPT ![t] = @ \cup {ptr}]
        /\ last' = Done("unsafe_take", t, ptr, TRUE, TRUE)
    /\ UNCHANGED <<backend, RT_TLS_PTR, keyState, tlsData, heap, value_cell, pc, aborted>>

compiled_exists_value(t) == RT_TLS_PTR[t] # NULL

compiled_exists(t) ==
    /\ CanCall(t) /\ backend = "compiled"
    /\ last' = Done("exists", t, NULL, compiled_exists_value(t), TRUE)
    /\ UNCHANGED <<backend, RT_TLS_PTR, keyState, tlsData, heap, held, value_cell, pc,
                   aborted>>

compiled_unsafe_borrow(t) ==
    /\ CanCall(t) /\ backend = "compiled"
    /\ IF RT_TLS_PTR[t] = NULL
       THEN Abort("unsafe_borrow", t)
       ELSE /\ last' = Done("unsafe_borrow", t, RT_TLS_PTR[t], TRUE, TRUE)
            /\ UNCHANGED <<RT_TLS_PTR, keyState, tlsData, heap, held, value_cell, pc,
                           aborted>>
    /\ UNCHANGED backend

compiled_try_unsafe_borrow(t) ==
    /\ CanCall(t) /\ backend = "compiled"
    /\ last' = IF RT_TLS_PTR[t] = NULL
               THEN Done("try_unsafe_borrow", t, NULL, FALSE, TRUE)
               ELSE Done("try_unsafe_borrow", t, RT_TLS_PTR[t], TRUE, TRUE)
    /\ UNCHANGED <<backend, RT_TLS_PTR, keyState, tlsData, heap, held, value_cell, pc,
                   aborted>>

\* ----------------------------------------------------------- mod native
\* Mutant of init_lock: the mutex is not acquired.
init_lock_noacquire(t) ==
    /\ ~aborted /\ pc[t] = "idle" /\ backend = "native"
    /\ createCount < MaxCreates
    /\ overlapped' = (overlapped \/ \E u \in Threads \ {t} : pc[u] \in CleanupPcs)
    /\ pc' = [pc EXCEPT ![t] = "init_locked"]
    /\ last' = Done("init_lock", t, NULL, FALSE, TRUE)
    /\ UNCHANGED <<backend, RT_TLS_PTR, LOCK, INITIALIZED, RT_TLS_KEY, liveKeys,
                   createCount, destroyCount, tlsData, heap, held, value_cell, aborted>>

\* LOCK.lock(): blocks while another thread holds the mutex.  A mutex that
\* cleanup() destroyed is back in its MUTEX_INIT state and is set up again here.
init_lock(t) ==
    /\ ~aborted /\ pc[t] = "idle" /\ backend = "native"
    /\ createCount < MaxCreates
    /\ LOCK.holder = NoThread
    /\ LOCK' = [LOCK EXCEPT !.holder = t, !.destroyed = FALSE]
    /\ overlapped' = (overlapped \/ \E u \in Threads \ {t} : pc[u] \in CleanupPcs)
    /\ pc' = [pc EXCEPT ![t] = "init_locked"]
    /\ last' = Done("init_lock", t, NULL, FALSE, TRUE)
    /\ UNCHANGED <<backend, RT_TLS_PTR, INITIALIZED, RT_TLS_KEY, liveKeys, createCount,
                   destroyCount, tlsData, heap, held, value_cell, aborted>>

\* The key tls::create hands out: the lowest one not in use.
FreshKey == {k \in Keys \ liveKeys : \A j \in Keys \ liveKeys : k <= j}

\* Mutant of init_create: the key is created whatever INITIALIZED says.
init_create_unguarded(t) ==
    /\ ~aborted /\ pc[t] = "init_locked"
    /\ Keys \ liveKeys # {}
    /\ \E k \in FreshKey :
         /\ RT_TLS_KEY' = k
         /\ liveKeys' = liveKeys \cup {k}
         /\ tlsData' = [tlsData EXCEPT ![k] = [u \in Threads |-> NULL]]
    /\ createCount' = createCount + 1
    /\ pc' = [pc EXCEPT ![t] = "init_created"]
    /\ last' = Done("init_create", t, NULL, FALSE, TRUE)
    /\ UNCHANGED <<backend, RT_TLS_PTR, LOCK, INITIALIZED, destroyCount, heap, held,
                   value_cell, aborted, overlapped>>

\* if !INITIALIZED { tls::create(&mut RT_TLS_KEY); ...  The new key has a null
\* word for every thread.
init_create(t) ==
    /\ ~aborted /\ pc[t] = "init_locked"
    /\ ~INITIALIZED
    /\ IF Keys \ liveKeys = {}
       THEN Abort("init", t)
       ELSE /\ \E k \in FreshKey :
                /\ RT_TLS_KEY' = k
                /\ liveKeys' = liveKeys \cup {k}
                /\ tlsData' = [tlsData EXCEPT ![k] = [u \in Threads |-> NULL]]
            /\ createCount' = createCount + 1
            /\ pc' = [pc EXCEPT ![t] = "init_created"]
            /\ last' = Done("init_create", t, NULL, FALSE, TRUE)
            /\ UNCHANGED <<RT_TLS_PTR, LOCK, INITIALIZED, destroyCount, heap, held,
                           value_cell, aborted, overlapped>>
    /\ UNCHANGED backend

\* Mutant of init_set: INITIALIZED is left clear.
init_set_forget(t) ==
    /\ ~aborted /\ pc[t] = "init_created"
    /\ pc' = [pc EXCEPT ![t] = "init_unlock"]
    /\ last' = Done("init_set", t, NULL, FALSE, TRUE)
    /\ UNCHANGED <<backend, RT_TLS_PTR, keyState, tlsData, heap, held, value_cell,
                   aborted>>

\* ... INITIALIZED = true; }
init_set(t) ==
    /\ ~aborted /\ pc[t] = "init_created"
    /\ INITIALIZED' = TRUE
    /\ pc' = [pc EXCEPT ![t] = "init_unlock"]
    /\ last' = Done("init_set", t, NULL, FALSE, TRUE)
    /\ UNCHANGED <<backend, RT_TLS_PTR, LOCK, RT_TLS_KEY, liveKeys, createCount,
                   destroyCount, tlsData, heap, held, value_cell, aborted, overlapped>>

\* Mutant of init_skip: init() returns from the else path with the lock held.
init_skip_return(t) ==
    /\ ~aborted /\ pc[t] = "init_locked"
    /\ INITIALIZED
    /\ pc' = [pc EXCEPT ![t] = "idle"]
    /\ last' = Done("init", t, NULL, FALSE, TRUE)
    /\ UNCHANGED <<backend, RT_TLS_PTR, keyState, tlsData, heap, held, value_cell,
                   aborted>>

\* INITIALIZED already set: the body of the if is skipped.
init_skip(t) ==
    /\ ~aborted /\ pc[t] = "init_locked"
    /\ INITIALIZED
    /\ pc' = [pc EXCEPT ![t] = "init_unlock"]
    /\ last' = Done("init_skip", t, NULL, FALSE, TRUE)
    /\ UNCHANGED <<backend, RT_TLS_PTR, keyState, tlsData, heap, held, value_cell,
                   aborted>>

\* LOCK.unlock().  If cleanup() destroyed the mutex while this thread held it,
\* the unlock reaches whatever mutex is there now: it may or may not release it.
init_unlock(t) ==
    /\ ~aborted /\ pc[t] = "init_unlock"
    /\ \/ LOCK' = [LOCK EXCEPT !.holder = IF @ = t THEN NoThread ELSE @]
       \/ LOCK.holder # t /\ LOCK' = [LOCK EXCEPT !.holder = NoThread, !.destroyed = FALSE]
    /\ pc' = [pc EXCEPT ![t] = "idle"]
    /\ last' = Done("init", t, NULL, FALSE, TRUE)
    /\ UNCHANGED <<backend, RT_TLS_PTR, INITIALIZED, RT_TLS_KEY, liveKeys, createCount,
                   destroyCount, tlsData, heap, held, value_cell, aborted, overlapped>>

\* Mutant of cleanup_assert: no assertion, cleanup() always goes on.
cleanup_assert_unchecked(t) ==
    /\ ~aborted /\ pc[t] = "idle" /\ backend = "native"
    /\ destroyCount < MaxDestroys
    /\ pc' = [pc EXCEPT ![t] = "cleanup_key"]
    /\ last' = Done("cleanup_assert", t, NULL, FALSE, TRUE)
    /\ overlapped' = (overlapped \/ \E u \in Threads \ {t} :
                                       pc[u] \in InitPcs \cup CleanupPcs)
    /\ UNCHANGED <<backend, RT_TLS_PTR, LOCK, INITIALIZED, RT_TLS_KEY, liveKeys,
                   createCount, destroyCount, tlsData, heap, held, value_cell, aborted>>

\* assert!(INITIALIZED): a failed assertion fails the task.
cleanup_assert(t) ==
    /\ ~aborted /\ pc[t] = "idle" /\ backend = "native"
    /\ destroyCount < MaxDestroys
    /\ IF INITIALIZED
       THEN /\ pc' = [pc EXCEPT ![t] = "cleanup_key"]
            /\ last' = Done("cleanup_assert", t, NULL, FALSE, TRUE)
            /\ overlapped' = (overlapped \/ \E u \in Threads \ {t} :
                                               pc[u] \in InitPcs \cup CleanupPcs)
       ELSE /\ pc' = [pc EXCEPT ![t] = "unwound"]
            /\ last' = Done("cleanup", t, NULL, FALSE, FALSE)
            /\ overlapped' = overlapped
    /\ UNCHANGED <<backend, RT_TLS_PTR, LOCK, INITIALIZED, RT_TLS_KEY, liveKeys,
                   createCount, destroyCount, tlsData, heap, held, value_cell, aborted>>

\* tls::destroy(RT_TLS_KEY).  RT_TLS_KEY itself keeps the number of the key.
\* Destroying a key that is not live is an error of the platform call.
cleanup_destroy_key(t) ==
    /\ ~aborted /\ pc[t] = "cleanup_key"
    /\ destroyCount' = destroyCount + 1
    /\ \/ /\ liveKeys' = liveKeys \ {RT_TLS_KEY}
          /\ pc' = [pc EXCEPT ![t] = "cleanup_lock"]
          /\ last' = Done("cleanup_destroy_key", t, NULL, FALSE, TRUE)
          /\ aborted' = aborted
       \/ /\ RT_TLS_KEY \notin liveKeys
          /\ aborted' = TRUE
          /\ last' = Done("cleanup", t, NULL, FALSE, FALSE)
          /\ UNCHANGED <<liveKeys, pc>>
    /\ UNCHANGED <<backend, RT_TLS_PTR, LOCK, INITIALIZED, RT_TLS_KEY, createCount,
                   tlsData, heap, held, value_cell, overlapped>>

\* LOCK.destroy(): frees the mutex, held or not, and leaves MUTEX_INIT behind.
cleanup_destroy_lock(t) ==
    /\ ~aborted /\ pc[t] = "cleanup_lock"
    /\ LOCK' = [holder |-> NoThread, destroyed |-> TRUE,
                broken |-> LOCK.broken \/ LOCK.holder # NoThread]
    /\ pc' = [pc EXCEPT ![t] = "cleanup_flag"]
    /\ last' = Done("cleanup_destroy_lock", t, NULL, FALSE, TRUE)
    /\ UNCHANGED <<backend, RT_TLS_PTR, INITIALIZED, RT_TLS_KEY, liveKeys, createCount,
                   destroyCount, tlsData, heap, held, value_cell, aborted, overlapped>>

\* INITIALIZED = false
cleanup_clear(t) ==
    /\ ~aborted /\ pc[t] = "cleanup_flag"
    /\ INITIALIZED' = FALSE
    /\ pc' = [pc EXCEPT ![t] = "idle"]
    /\ last' = Done("cleanup", t, NULL, FALSE, TRUE)
    /\ UNCHANGED <<backend, RT_TLS_PTR, LOCK, RT_TLS_KEY, liveKeys, createCount,
                   destroyCount, tlsData, heap, held, value_cell, aborted, overlapped>>

\* Option<tls::Key> as a set of at most one key.
maybe_tls_key == IF RT_TLS_KEY # NoKey THEN {RT_TLS_KEY} ELSE {}

\* tls::get(key) on thread t.  Reading a destroyed key is undefined by the
\* platform: it yields null or the word that was stored.
TlsGet(key, t) ==
    IF key \in liveKeys THEN {tlsData[key][t]} ELSE {NULL, tlsData[key][t]}

\* tls::set(key, w) on thread t, when the platform accepts it.
TlsSet(key, t, w) == [tlsData EXCEPT ![key][t] = w]

\* Mutant of native_put: an unset key is not fatal, the call just returns.
native_put_lenient(t, sched) ==
    /\ CanCall(t) /\ backend = "native"
    /\ sched \in Owned(t)
    /\ IF maybe_tls_key = {}
       THEN /\ last' = Done("put", t, sched, FALSE, TRUE)
            /\ UNCHANGED <<RT_TLS_PTR, keyState, tlsData, heap, held, value_cell, pc,
                           aborted>>
       ELSE \E key \in maybe_tls_key :
              /\ tlsData' = TlsSet(key, t, sched)
              /\ heap' = Boxed(sched)
              /\ held' = [held EXCEPT ![t] = @ \ {sched}]
              /\ last' = Done("put", t, sched, FALSE, TRUE)
              /\ UNCHANGED <<RT_TLS_PTR, keyState, value_cell, pc, aborted>>
    /\ UNCHANGED backend

\* let key = tls_key(): rtabort! when maybe_tls_key() is None.
native_put(t, sched) ==
    /\ CanCall(t) /\ backend = "native"
    /\ sched \in Owned(t)
    /\ IF maybe_tls_key = {}
       THEN Abort("put", t)
       ELSE \E key \in maybe_tls_key :
              \/ /\ tlsData' = TlsSet(key, t, sched)
                 /\ heap' = Boxed(sched)
                 /\ held' = [held EXCEPT ![t] = @ \ {sched}]
                 /\ last' = Done("put", t, sched, FALSE, TRUE)
                 /\ UNCHANGED <<RT_TLS_PTR, keyState, value_cell, pc, aborted>>
              \/ /\ key \notin liveKeys
                 /\ Abort("put", t)
    /\ UNCHANGED backend

\* Mutant of native_take: no test for a null word.
native_take_unchecked(t) ==
    /\ CanCall(t) /\ backend = "native"
    /\ IF maybe_tls_key = {}
       THEN Abort("take", t)
       ELSE \E key \in maybe_tls_key : \E void_ptr \in TlsGet(key, t) :
              /\ tlsData' = TlsSet(key, t, NULL)
              /\ held' = [held EXCEPT ![t] = @ \cup {void_ptr}]
              /\ last' = Done("take", t, void_ptr, TRUE, TRUE)
              /\ UNCHANGED <<RT_TLS_PTR, keyState, heap, value_cell, pc, aborted>>
    /\ UNCHANGED backend

\* Mutant of native_take: the word is left in the slot.
native_take_keep(t) ==
    /\ CanCall(t) /\ backend = "native"
    /\ IF maybe_tls_key = {}
       THEN Abort("take", t)
       ELSE \E key \in maybe_tls_key : \E void_ptr \in TlsGet(key, t) :
              IF void_ptr = NULL
              THEN Abort("take", t)
              ELSE /\ held' = [held EXCEPT ![t] = @ \cup {void_ptr}]
                   /\ last' = Done("take", t, void_ptr, TRUE, TRUE)
                   /\ UNCHANGED <<RT_TLS_PTR, keyState, tlsData, heap, value_cell, pc,
                                  aborted>>
    /\ UNCHANGED backend

native_take(t) ==
    /\ CanCall(t) /\ backend = "native"
    /\ IF maybe_tls_key = {}
       THEN Abort("take", t)
       ELSE \E key \in maybe_tls_key : \E void_ptr \in TlsGet(key, t) :
              IF void_ptr = NULL
              THEN Abort("take", t)
              ELSE \/ /\ tlsData' = TlsSet(key, t, NULL)
                      /\ held' = [held EXCEPT ![t] = @ \cup {void_ptr}]
                      /\ last' = Done("take", t, void_ptr, TRUE, TRUE)
                      /\ UNCHANGED <<RT_TLS_PTR, keyState, heap, value_cell, pc,
                                     aborted>>
                   \/ /\ key \notin liveKeys
                      /\ Abort("take", t)
    /\ UNCHANGED backend

\* Mutant of native_unsafe_take: the word is cleared, as take() does.
native_unsafe_take_clear(t) ==
    /\ CanCall(t) /\ backend = "native"
    /\ IF maybe_tls_key = {}
       THEN Abort("unsafe_take", t)
       ELSE \E key \in maybe_tls_key : \E void_ptr \in TlsGet(key, t) :
              IF void_ptr = NULL
              THEN Abort("unsafe_take", t)
              ELSE /\ tlsData' = TlsSet(key, t, NULL)
                   /\ held' = [held EXCEPT ![t] = @ \cup {void_ptr}]
                   /\ last' = Done("unsafe_take", t, void_ptr, TRUE, TRUE)
                   /\ UNCHANGED <<RT_TLS_PTR, keyState, heap, value_cell, pc, aborted>>
    /\ UNCHANGED backend

native_unsafe_take(t) ==
    /\ CanCall(t) /\ backend = "native"
    /\ IF maybe_tls_key = {}
       THEN Abort("unsafe_take", t)
       ELSE \E key \in maybe_tls_key : \E void_ptr \in TlsGet(key, t) :
              IF void_ptr = NULL
              THEN Abort("unsafe_take", t)
              ELSE /\ held' = [held EXCEPT ![t] = @ \cup {void_ptr}]
                   /\ last' = Done("unsafe_take", t, void_ptr, TRUE, TRUE)
                   /\ UNCHANGED <<RT_TLS_PTR, keyState, tlsData, heap, value_cell, pc,
                                  aborted>>
    /\ UNCHANGED backend

\* Mutant of native_exists: the key is resolved with tls_key(), which aborts.
native_exists_strict(t) ==
    /\ CanCall(t) /\ backend = "native"
    /\ IF maybe_tls_key = {}
       THEN Abort("exists", t)
       ELSE /\ \E key \in maybe_tls_key : \E w \in TlsGet(key, t) :
                  last' = Done("exists", t, NULL, w # NULL, TRUE)
            /\ UNCHANGED <<RT_TLS_PTR, keyState, tlsData, heap, held, value_cell, pc,
                           aborted>>
    /\ UNCHANGED backend

\* The values exists() can return on thread t in the current state.
native_exists_values(t) ==
    IF maybe_tls_key = {}
    THEN {FALSE}
    ELSE UNION {{w # NULL : w \in TlsGet(key, t)} : key \in maybe_tls_key}

native_exists(t) ==
    /\ CanCall(t) /\ backend = "native"
    /\ \E b \in native_exists_values(t) :
           last' = Done("exists", t, NULL, b, TRUE)
    /\ UNCHANGED <<backend, RT_TLS_PTR, keyState, tlsData, heap, held, value_cell, pc,
                   aborted>>

native_unsafe_borrow(t) ==
    /\ CanCall(t) /\ backend = "native"
    /\ IF maybe_tls_key = {}
       THEN Abort("unsafe_borrow", t)
       ELSE \E key \in maybe_tls_key : \E void_ptr \in TlsGet(key, t) :
              IF void_ptr = NULL
              THEN Abort("unsafe_borrow", t)
              ELSE /\ last' = Done("unsafe_borrow", t, void_ptr, TRUE, TRUE)
                   /\ UNCHANGED <<RT_TLS_PTR, keyState, tlsData, heap, held, value_cell,
                                  pc, aborted>>
    /\ UNCHANGED backend

\* Mutant of native_try_unsafe_borrow: the key is resolved with tls_key().
native_try_unsafe_borrow_strict(t) ==
    /\ CanCall(t) /\ backend = "native"
    /\ IF maybe_tls_key = {}
       THEN Abort("try_unsafe_borrow", t)
       ELSE /\ \E key \in maybe_tls_key : \E void_ptr \in TlsGet(key, t) :
                  last' = Done("try_unsafe_borrow", t, void_ptr, void_ptr # NULL, TRUE)
            /\ UNCHANGED <<RT_TLS_PTR, keyState, tlsData, heap, held, value_cell, pc,
                           aborted>>
    /\ UNCHANGED backend

native_try_unsafe_borrow(t) ==
    /\ CanCall(t) /\ backend = "native"
    /\ IF maybe_tls_key = {}
       THEN last' = Done("try_unsafe_borrow", t, NULL, FALSE, TRUE)
       ELSE \E key \in maybe_tls_key : \E void_ptr \in TlsGet(key, t) :
              last' = Done("try_unsafe_borrow", t, void_ptr, void_ptr # NULL, TRUE)
    /\ UNCHANGED <<backend, RT_TLS_PTR, keyState, tlsData, heap, held, value_cell, pc,
                   aborted>>

\* --------------------------------------------------------------- borrow
\* The word the slot of thread t holds on the selected backend.
Slot(t) ==
    IF backend = "compiled" THEN RT_TLS_PTR[t]
    ELSE IF RT_TLS_KEY = NoKey THEN NULL ELSE tlsData[RT_TLS_KEY][t]

\* Mutant of borrow_take: the value is taken with unsafe_take(), which leaves
\* the word in the slot.
borrow_take_keep(t) ==
    /\ ~aborted /\ pc[t] = "idle"
    /\ IF backend = "compiled"
       THEN /\ value_cell' = [value_cell EXCEPT ![t] = RT_TLS_PTR[t]]
            /\ pc' = [pc EXCEPT ![t] = "callback"]
            /\ last' = Done("borrow_take", t, RT_TLS_PTR[t], TRUE, TRUE)
            /\ UNCHANGED <<RT_TLS_PTR, keyState, tlsData, heap, held, aborted>>
       ELSE IF maybe_tls_key = {}
       THEN Abort("borrow_take", t)
       ELSE \E key \in maybe_tls_key : \E void_ptr \in TlsGet(key, t) :
              IF void_ptr = NULL
              THEN Abort("borrow_take", t)
              ELSE /\ value_cell' = [value_cell EXCEPT ![t] = void_ptr]
                   /\ pc' = [pc EXCEPT ![t] = "callback"]
                   /\ last' = Done("borrow_take", t, void_ptr, TRUE, TRUE)
                   /\ UNCHANGED <<RT_TLS_PTR, keyState, tlsData, heap, held, aborted>>
    /\ UNCHANGED backend

\* let mut value = take(); ... Cell::new(value); control enters f.
borrow_take(t) ==
    /\ ~aborted /\ pc[t] = "idle"
    /\ IF backend = "compiled"
       THEN LET ptr == RT_TLS_PTR[t] IN
            /\ RT_TLS_PTR' = [RT_TLS_PTR EXCEPT ![t] = NULL]
            /\ value_cell' = [value_cell EXCEPT ![t] = ptr]
            /\ pc' = [pc EXCEPT ![t] = "callback"]
            /\ last' = Done("borrow_take", t, ptr, TRUE, TRUE)
            /\ UNCHANGED <<keyState, tlsData, heap, held, aborted>>
       ELSE IF maybe_tls_key = {}
       THEN Abort("borrow_take", t)
       ELSE \E key \in maybe_tls_key : \E void_ptr \in TlsGet(key, t) :
              IF void_ptr = NULL
              THEN Abort("borrow_take", t)
              ELSE \/ /\ tlsData' = TlsSet(key, t, NULL)
                      /\ value_cell' = [value_cell EXCEPT ![t] = void_ptr]
                      /\ pc' = [pc EXCEPT ![t] = "callback"]
                      /\ last' = Done("borrow_take", t, void_ptr, TRUE, TRUE)
                      /\ UNCHANGED <<RT_TLS_PTR, keyState, heap, held, aborted>>
                   \/ /\ key \notin liveKeys
                      /\ Abort("borrow_take", t)
    /\ UNCHANGED backend

\* f(unsafe_ptr): f writes the field of the value through the view it was given.
f_write(t, c) ==
    /\ ~aborted /\ pc[t] = "callback"
    /\ value_cell[t] # NULL
    /\ heap[value_cell[t]] # FREE
    /\ heap' = [heap EXCEPT ![value_cell[t]] = c]
    /\ last' = Done("f_write", t, value_cell[t], TRUE, TRUE)
    /\ UNCHANGED <<backend, RT_TLS_PTR, keyState, tlsData, held, value_cell, pc, aborted>>

\* Mutant of borrow_finally: the value is dropped instead of put back.
borrow_finally_forget(t, o, next) ==
    /\ ~aborted /\ pc[t] = "callback"
    /\ value_cell' = [value_cell EXCEPT ![t] = NULL]
    /\ pc' = [pc EXCEPT ![t] = next]
    /\ last' = Done(o, t, value_cell[t], FALSE, TRUE)
    /\ UNCHANGED <<backend, RT_TLS_PTR, keyState, tlsData, heap, held, aborted>>

\* Mutant of borrow_finally: f(unsafe_ptr); put(value) without finally, so a
\* failure of f skips the put.
borrow_finally_plain(t, o, next) ==
    /\ ~aborted /\ pc[t] = "callback"
    /\ LET value == value_cell[t] IN
       IF o = "borrow_unwind"
       THEN /\ value_cell' = [value_cell EXCEPT ![t] = NULL]
            /\ pc' = [pc EXCEPT ![t] = next]
            /\ last' = Done(o, t, value, FALSE, TRUE)
            /\ UNCHANGED <<RT_TLS_PTR, keyState, tlsData, heap, held, aborted>>
       ELSE IF backend = "compiled"
       THEN /\ RT_TLS_PTR' = [RT_TLS_PTR EXCEPT ![t] = value]
            /\ value_cell' = [value_cell EXCEPT ![t] = NULL]
            /\ pc' = [pc EXCEPT ![t] = next]
            /\ last' = Done(o, t, value, FALSE, TRUE)
            /\ UNCHANGED <<keyState, tlsData, heap, held, aborted>>
       ELSE \E key \in maybe_tls_key :
              /\ tlsData' = TlsSet(key, t, value)
              /\ value_cell' = [value_cell EXCEPT ![t] = NULL]
              /\ pc' = [pc EXCEPT ![t] = next]
              /\ last' = Done(o, t, value, FALSE, TRUE)
              /\ UNCHANGED <<RT_TLS_PTR, keyState, heap, held, aborted>>
    /\ UNCHANGED backend

\* Mutant of borrow_finally: f worked on a copy, the value put back is as it
\* was before the call.
borrow_finally_reset(t, o, next) ==
    /\ ~aborted /\ pc[t] = "callback"
    /\ LET value == value_cell[t] IN
       /\ heap' = IF value \in Addrs THEN [heap EXCEPT ![value] = 0] ELSE heap
       /\ IF backend = "compiled"
          THEN /\ RT_TLS_PTR' = [RT_TLS_PTR EXCEPT ![t] = value]
               /\ UNCHANGED tlsData
          ELSE /\ \E key \in maybe_tls_key : tlsData' = TlsSet(key, t, value)
               /\ UNCHANGED RT_TLS_PTR
       /\ value_cell' = [value_cell EXCEPT ![t] = NULL]
       /\ pc' = [pc EXCEPT ![t] = next]
       /\ last' = Done(o, t, value, FALSE, TRUE)
    /\ UNCHANGED <<backend, keyState, held, aborted>>

\* .finally(|| put(value_cell.take())): the put runs when f is left, whether f
\* returned (o = "borrow", control is back in the caller) or failed
\* (o = "borrow_unwind", the failure goes on unwinding past borrow).
borrow_finally(t, o, next) ==
    /\ ~aborted /\ pc[t] = "callback"
    /\ LET value == value_cell[t] IN
       IF backend = "compiled"
       THEN /\ RT_TLS_PTR' = [RT_TLS_PTR EXCEPT ![t] = value]
            /\ value_cell' = [value_cell EXCEPT ![t] = NULL]
            /\ pc' = [pc EXCEPT ![t] = next]
            /\ last' = Done(o, t, value, FALSE, TRUE)
            /\ UNCHANGED <<keyState, tlsData, heap, held, aborted>>
       ELSE IF maybe_tls_key = {}
       THEN Abort(o, t)
       ELSE \E key \in maybe_tls_key :
              \/ /\ tlsData' = TlsSet(key, t, value)
                 /\ value_cell' = [value_cell EXCEPT ![t] = NULL]
                 /\ pc' = [pc EXCEPT ![t] = next]
                 /\ last' = Done(o, t, value, FALSE, TRUE)
                 /\ UNCHANGED <<RT_TLS_PTR, keyState, heap, held, aborted>>
              \/ /\ key \notin liveKeys
                 /\ Abort(o, t)
    /\ UNCHANGED backend

borrow_return(t) == borrow_finally(t, "borrow", "idle")

borrow_unwind(t) == borrow_finally(t, "borrow_unwind", "unwound")

\* ------------------------------------------------------------------ spec
\* The calls that use the slot, on the selected backend.
SlotStep(t) ==
    \/ \E a \in Words : compiled_put(t, a)
    \/ compiled_take(t)
    \/ compiled_unsafe_take(t)
    \/ compiled_exists(t)
    \/ compiled_unsafe_borrow(t)
    \/ compiled_try_unsafe_borrow(t)
    \/ \E a \in Words : native_put(t, a)
    \/ native_take(t)
    \/ native_unsafe_take(t)
    \/ native_exists(t)
    \/ native_unsafe_borrow(t)
    \/ native_try_unsafe_borrow(t)
    \/ borrow_take(t)
    \/ \E c \in Fields : f_write(t, c)
    \/ borrow_return(t)
    \/ borrow_unwind(t)

InitStep(t) ==
    \/ compiled_init(t)
    \/ init_lock(t)
    \/ init_create(t)
    \/ init_set(t)
    \/ init_skip(t)
    \/ init_unlock(t)

CleanupStep(t) ==
    \/ cleanup_assert(t)
    \/ cleanup_destroy_key(t)
    \/ cleanup_destroy_lock(t)
    \/ cleanup_clear(t)

\* The calls that only look at the slot of the native backend.
ReadStep(t) ==
    \/ native_exists(t)
    \/ native_try_unsafe_borrow(t)
    \/ native_unsafe_borrow(t)

\* The runtime at work: every thread may call init(), the task thread uses
\* its slot.
\* cleanup() of the native backend belongs to process shutdown (SpecKey).
Next ==
    \E t \in Threads :
        \/ InitStep(t)
        \/ compiled_cleanup(t)
        \/ t \in Users /\ SlotStep(t)

Spec == Init /\ [][Next]_vars

\* The statements of init() after LOCK.lock(): none of them blocks, so a
\* thread that is scheduled goes on to the end of the call.
InitBody(t) == init_create(t) \/ init_set(t) \/ init_skip(t) \/ init_unlock(t)

InitKey == Init /\ backend = "native"

\* init() from every thread under a fair scheduler, while the task thread
\* calls put, take, exists and borrow.
NextLive ==
    \E t \in Threads :
        \/ init_lock(t)
        \/ InitBody(t)
        \/ /\ t \in Users
           /\ \/ \E a \in Words : native_put(t, a)
              \/ native_take(t)
              \/ native_exists(t)
              \/ borrow_take(t)
              \/ borrow_return(t)

SpecLive ==
    /\ InitKey
    /\ [][NextLive]_vars
    /\ \A t \in Threads : WF_vars(InitBody(t))

\* The life of the key of the native backend: init() and cleanup() from every
\* thread, in any interleaving, while threads look at their slots.
NextKey ==
    \E t \in Threads :
        \/ init_lock(t)
        \/ init_create(t)
        \/ init_set(t)
        \/ init_skip(t)
        \/ init_unlock(t)
        \/ CleanupStep(t)
        \/ ReadStep(t)

SpecKey == InitKey /\ [][NextKey]_vars

\* Safe use: the task thread calls put only on an empty slot, take and borrow
\* (with a callback that may do the same and write the value); every thread
\* may call init().
SafeStep(t) ==
    \/ /\ Slot(t) = NULL
       /\ \E a \in Words : compiled_put(t, a) \/ native_put(t, a)
    \/ compiled_take(t)
    \/ native_take(t)
    \/ borrow_take(t)
    \/ \E c \in Fields : f_write(t, c)
    \/ borrow_return(t)
    \/ borrow_unwind(t)

NextSafe ==
    \E t \in Threads :
        \/ InitStep(t)
        \/ t \in Users /\ SafeStep(t)

SpecSafe == Init /\ [][NextSafe]_vars

\* ------------------------------------------------------- observations
\* The native key is created and not destroyed.
KeyLive == RT_TLS_KEY # NoKey /\ RT_TLS_KEY \in liveKeys

\* The slot can be used: always on compiled, once init() made the key on native.
Ready == backend = "compiled" \/ KeyLive

\* The values exists() can return on thread t in the current state.
ExistsValues(t) ==
    IF backend = "compiled" THEN {compiled_exists_value(t)} ELSE native_exists_values(t)

\* The owners of box a: the slots that hold it, the callers that hold it and
\* the running borrow calls that keep it in their cell.
Owners(a) ==
    {<<"slot", t>> : t \in {u \in Threads : Slot(u) = a}}
    \cup {<<"held", t>> : t \in {u \in Threads : a \in held[u]}}
    \cup {<<"cell", t>> : t \in {u \in Threads : value_cell[u] = a}}

\* The step being taken is a call (or step of a call) in ops made by thread t.
Step(t, ops) == last'.thread = t /\ last'.op \in ops

\* ---------------------------------------------------------------- claims

\* C1: put(v) directly followed by take() on the same thread returns v itself
\* (the same box, its contents untouched) and leaves the slot empty.
C1_RoundTrip ==
    [][\A t \in Threads :
        (Ready /\ last.op = "put" /\ last.thread = t /\ last.ok /\ Step(t, {"take"}))
        => /\ last'.ok /\ ~aborted'
           /\ last'.val = last.val
           /\ last'.val \in held'[t]
           /\ heap' = heap
           /\ Slot(t)' = NULL]_vars

C1_Witness ==
    /\ backend = "native" /\ KeyLive
    /\ last.op = "take" /\ last.ok /\ last.val \in Addrs
    /\ Slot(last.thread) = NULL

\* C2: when borrow(f) is called on a slot that holds a value and f returns,
\* exists() is true right before the call and right after it, and no step of
\* borrow leaves the thread outside the callback with an empty slot.
C2_BorrowRestores ==
    [][\A t \in Threads :
        /\ (Step(t, {"borrow_take"}) /\ Ready /\ Slot(t) # NULL)
           => (ExistsValues(t) = {TRUE} /\ pc'[t] = "callback")
        /\ (Step(t, {"borrow"}) /\ value_cell[t] # NULL)
           => /\ last'.ok /\ pc'[t] = "idle"
              /\ Slot(t)' = value_cell[t]
              /\ ExistsValues(t)' = {TRUE}
        /\ (Ready /\ Slot(t)' = NULL
              /\ \/ Step(t, {"borrow_take"}) /\ Slot(t) # NULL
                 \/ Step(t, {"borrow"}) /\ value_cell[t] # NULL)
           => pc'[t] = "callback"]_vars

C2_Witness ==
    /\ last.op = "borrow" /\ last.ok /\ last.val \in Addrs
    /\ pc[last.thread] = "idle"
    /\ Slot(last.thread) = last.val

\* C3: when f fails, the put of borrow has run by the time the failure has
\* left borrow: the slot holds the value borrow took out of it.
C3_BorrowRestoresOnUnwind ==
    [][\A t \in Threads :
        /\ (Step(t, {"borrow_take"}) /\ last'.ok) => value_cell'[t] = Slot(t)
        /\ (Step(t, {"borrow_unwind"}) /\ Ready)
           => /\ last'.ok /\ ~aborted'
              /\ pc'[t] = "unwound"
              /\ Slot(t)' = value_cell[t]
              /\ value_cell'[t] = NULL]_vars

C3_Witness ==
    /\ last.op = "borrow_unwind" /\ last.ok /\ last.val \in Addrs
    /\ pc[last.thread] = "unwound"
    /\ Slot(last.thread) = last.val

\* C4: native, key initialised: take(), unsafe_take() and unsafe_borrow() on an
\* empty slot abort the process, return nothing and change nothing.
C4_NativeFatalOnEmpty ==
    [][\A t \in Threads :
        (backend = "native" /\ KeyLive /\ Slot(t) = NULL
            /\ Step(t, {"take", "unsafe_take", "unsafe_borrow"}))
        => /\ aborted' /\ ~last'.ok /\ last'.val = NULL
           /\ tlsData' = tlsData /\ held' = held /\ heap' = heap]_vars

C4_Witness ==
    /\ backend = "native" /\ KeyLive /\ aborted
    /\ last.op \in {"take", "unsafe_take", "unsafe_borrow"}
    /\ Slot(last.thread) = NULL

\* C5: compiled: take() and unsafe_take() on a null cell abort the process
\* instead of returning to the caller.
C5_CompiledFatalOnEmpty ==
    (backend = "compiled" /\ last.op \in {"take", "unsafe_take"} /\ last.val = NULL)
    => (aborted /\ ~last.ok)

\* C6: with init() called from every thread, any number of times, and no
\* cleanup(), tls::create runs once (exactly once as soon as one init() has
\* got past it) and no later init() changes the key.
C6_SingleKeyCreation ==
    [][/\ createCount' <= 1
       /\ (backend = "native" /\ (INITIALIZED' \/ last'.op \in {"init", "init_skip"}))
          => (createCount' = 1 /\ KeyLive')
       /\ RT_TLS_KEY # NoKey => RT_TLS_KEY' = RT_TLS_KEY]_vars

C6_Witness ==
    /\ last.op = "init_skip" /\ createCount = 1
    /\ \E t \in Threads : t # last.thread /\ pc[t] = "idle"

\* C7 as written: over any sequence of calls of init() and cleanup() (none of
\* them overlapping a cleanup()) the key is created at most once and destroyed
\* at most once.
C7_KeyOnce == ~overlapped => (createCount <= 1 /\ destroyCount <= 1)

\* C7 amended: init() creates a key whenever it finds INITIALIZED clear, which
\* every completed cleanup() makes it again; as long as cleanup() has not
\* destroyed the lock under an init() holding it, tls::create has run at most
\* once more than tls::destroy.
C7_KeyOncePerCleanup == ~LOCK.broken => createCount <= destroyCount + 1

C7_Witness ==
    /\ createCount = 2 /\ destroyCount = 1 /\ ~LOCK.broken
    /\ last.op = "init" /\ INITIALIZED /\ KeyLive

\* C8 as written: every write to the key state, those of cleanup() included,
\* is made by a thread that holds the lock (here: even when no call overlaps a
\* cleanup()).
C8_AllWritesLocked ==
    [][(~overlapped'
          /\ (RT_TLS_KEY' # RT_TLS_KEY \/ INITIALIZED' # INITIALIZED \/ liveKeys' # liveKeys))
       => LOCK.holder = last'.thread]_vars

\* C8 amended: the key is written only by tls::create in init(), and init()
\* creates it and sets the flag while it holds the lock (unless cleanup()
\* destroyed the lock under it); cleanup() destroys the key and clears the
\* flag without taking the lock.
C8_InitWritesLocked ==
    [][/\ (RT_TLS_KEY' # RT_TLS_KEY \/ createCount' # createCount
             \/ (INITIALIZED' /\ ~INITIALIZED))
          => /\ last'.op \in {"init_create", "init_set"}
             /\ pc[last'.thread] \in {"init_locked", "init_created"}
             /\ (LOCK.holder = last'.thread \/ LOCK.broken)
       /\ (destroyCount' # destroyCount \/ (INITIALIZED /\ ~INITIALIZED'))
          => /\ last'.op \in {"cleanup_destroy_key", "cleanup"}
             /\ pc[last'.thread] \in {"cleanup_key", "cleanup_flag"}
             /\ LOCK' = LOCK]_vars

C8_Witness ==
    /\ last.op = "init_create" /\ LOCK.holder = last.thread /\ ~LOCK.broken
    /\ destroyCount = 1 /\ createCount = 2

\* C9: on a usable slot exists() is true right after a put() returned and
\* false right after a take() returned, on the same thread.
C9_EmptinessContract ==
    Ready =>
        /\ (last.op = "put" /\ last.ok) => ExistsValues(last.thread) = {TRUE}
        /\ (last.op = "take" /\ last.ok) => ExistsValues(last.thread) = {FALSE}

\* C10 as written: after unsafe_take() on a non-empty slot exists() stays true
\* until the next put() on that thread; stated for the call that follows.
C10_AliasUntilPut ==
    [][\A t \in Threads :
        (Ready /\ last.op = "unsafe_take" /\ last.thread = t /\ last.val # NULL
            /\ last'.thread = t /\ last'.op \notin {"put", "borrow", "borrow_unwind"})
        => ExistsValues(t)' = {TRUE}]_vars

\* C10 amended: unsafe_take() on a non-empty slot returns the resident word and
\* leaves it stored, and the stored word stays (exists() true, unsafe_borrow
\* the same pointer) until the next put() or take() of that thread, borrow's
\* included.
C10_UnsafeTakeFrame ==
    [][\A t \in Threads :
        /\ (Ready /\ Slot(t) # NULL /\ Step(t, {"unsafe_take"}))
           => /\ last'.ok /\ ~aborted'
              /\ last'.val = Slot(t)
              /\ last'.val \in held'[t]
              /\ Slot(t)' = Slot(t)
              /\ ExistsValues(t)' = {TRUE}
        /\ (Ready /\ Slot(t) # NULL /\ Slot(t)' # Slot(t))
           => Step(t, {"put", "take", "borrow_take", "borrow", "borrow_unwind"})
        /\ (Ready /\ Slot(t) # NULL /\ Step(t, {"unsafe_borrow"}))
           => (last'.ok /\ last'.val = Slot(t))]_vars

C10_Witness ==
    /\ last.op = "unsafe_take" /\ last.ok /\ last.val \in Addrs
    /\ Slot(last.thread) = last.val
    /\ last.val \in held[last.thread]

\* C11: native, init() has not run (no key was ever created): put(), take(),
\* unsafe_take() and unsafe_borrow() (and the take() of borrow) abort the
\* process in tls_key(), before any tls::get or tls::set: no word of thread-
\* local storage, no box and no key state is touched.
C11_UseBeforeInit ==
    [][\A t \in Threads :
        (backend = "native" /\ createCount = 0
            /\ Step(t, {"put", "take", "unsafe_take", "unsafe_borrow", "borrow_take"}))
        => /\ RT_TLS_KEY = NoKey
           /\ aborted' /\ ~last'.ok /\ last'.val = NULL
           /\ tlsData' = tlsData /\ heap' = heap /\ held' = held
           /\ value_cell' = value_cell /\ pc' = pc
           /\ keyState' = keyState]_vars

C11_Witness ==
    /\ backend = "native" /\ createCount = 0 /\ RT_TLS_KEY = NoKey
    /\ aborted /\ ~last.ok
    /\ last.op \in {"put", "take", "unsafe_take", "unsafe_borrow"}

\* C12: exists() and try_unsafe_borrow() always return, change nothing, and
\* answer false / None exactly when the slot of the thread holds no word (the
\* key still being -1 included), true / Some(the stored word) otherwise.
C12_NonFatalEmptiness ==
    [][\A t \in Threads :
        Step(t, {"exists", "try_unsafe_borrow"})
        => /\ last'.ok /\ ~aborted'
           /\ RT_TLS_PTR' = RT_TLS_PTR /\ tlsData' = tlsData
           /\ keyState' = keyState
           /\ heap' = heap /\ held' = held /\ value_cell' = value_cell /\ pc' = pc
           /\ last'.some = (Slot(t) # NULL)
           /\ (last'.op = "try_unsafe_borrow" => last'.val = Slot(t))]_vars

C12_Witness ==
    /\ backend = "native" /\ RT_TLS_KEY = NoKey
    /\ last.op \in {"exists", "try_unsafe_borrow"} /\ last.ok /\ ~last.some
    /\ ~aborted

\* C13: native: cleanup() called with INITIALIZED clear fails its assertion
\* with the key, the lock and the flag untouched; called with INITIALIZED set
\* (and not overlapping another init() or cleanup()) it has destroyed the key
\* and the lock and cleared the flag when it returns.
C13_CleanupRequiresInit ==
    [][\A t \in Threads :
        /\ (pc[t] = "idle" /\ ~INITIALIZED /\ Step(t, {"cleanup", "cleanup_assert"}))
           => /\ ~last'.ok /\ pc'[t] = "unwound"
              /\ keyState' = keyState
        /\ (pc[t] = "idle" /\ INITIALIZED /\ Step(t, {"cleanup", "cleanup_assert"}))
           => (last'.ok /\ pc'[t] = "cleanup_key" /\ liveKeys' = liveKeys /\ LOCK' = LOCK)
        /\ (pc[t] = "cleanup_flag" /\ Step(t, {"cleanup"}) /\ ~overlapped')
           => /\ last'.ok /\ pc'[t] = "idle"
              /\ RT_TLS_KEY \notin liveKeys'
              /\ LOCK'.destroyed /\ LOCK'.holder = NoThread
              /\ ~INITIALIZED']_vars

\* A second cleanup() after init(); cleanup() has failed its assertion.
C13_Witness ==
    /\ last.op = "cleanup" /\ ~last.ok /\ pc[last.thread] = "unwound"
    /\ createCount = 1 /\ destroyCount = 1 /\ ~INITIALIZED /\ ~overlapped
    /\ LOCK.destroyed

\* C14: the view f gets is the box that was in the slot when borrow was
\* called, f's writes go to that box and to no other, the box put back is
\* that box with its contents as f left them, and a later take() returns it
\* unchanged: only f's writes ever change the contents of a box.
C14_BorrowSameValue ==
    [][\A t \in Threads :
        /\ (Step(t, {"borrow_take"}) /\ last'.ok)
           => (value_cell'[t] = Slot(t) /\ last'.val = Slot(t) /\ heap' = heap)
        /\ Step(t, {"f_write"})
           => /\ last'.val = value_cell[t] /\ value_cell' = value_cell
              /\ \A a \in Addrs \ {value_cell[t]} : heap'[a] = heap[a]
        /\ (Step(t, {"borrow", "borrow_unwind"}) /\ Ready)
           => (Slot(t)' = value_cell[t] /\ heap' = heap)
        /\ (Step(t, {"take"}) /\ Ready /\ Slot(t) # NULL)
           => (last'.val = Slot(t) /\ last'.val \in held'[t] /\ heap' = heap)
        /\ \A a \in Addrs :
             (heap[a] # FREE /\ heap'[a] # heap[a])
             => (last'.op = "f_write" /\ a = value_cell[last'.thread])]_vars

\* take() has returned a box whose field is not the 0 it was made with: the
\* write of a borrow callback.
C14_Witness ==
    /\ last.op = "take" /\ last.ok /\ last.val \in Addrs
    /\ heap[last.val] = MaxField
    /\ last.val \in held[last.thread]
    /\ pc[last.thread] = "idle"

\* C15: borrow empties the slot before f runs, and while f runs the slot stays
\* empty (exists() false, try_unsafe_borrow() None) until f itself calls put.
C15_EmptyWhileBorrowed ==
    [][\A t \in Threads :
        /\ (Step(t, {"borrow_take"}) /\ last'.ok)
           => /\ pc'[t] = "callback"
              /\ Slot(t)' = NULL
              /\ ExistsValues(t)' = {FALSE}
        /\ (pc[t] = "callback" /\ pc'[t] = "callback" /\ Slot(t) = NULL /\ Slot(t)' # NULL)
           => Step(t, {"put"})
        /\ (pc[t] = "callback" /\ Slot(t) = NULL /\ Step(t, {"exists", "try_unsafe_borrow"}))
           => (last'.ok /\ ~last'.some)]_vars

\* exists() called from inside f, on a borrowed value, has returned false.
C15_Witness ==
    /\ last.op = "exists" /\ last.ok /\ ~last.some
    /\ pc[last.thread] = "callback"
    /\ value_cell[last.thread] \in Addrs

\* C16: put(w) on a slot that holds v returns normally and stores w whatever
\* v is: the slot (of any thread) no longer holds v when w is another box, and
\* the take() that follows returns w.
C16_PutOverwrites ==
    [][\A t \in Threads :
        /\ (Ready /\ Slot(t) # NULL /\ Step(t, {"put"}))
           => /\ last'.ok /\ ~aborted'
              /\ Slot(t)' = last'.val
              /\ (last'.val # Slot(t) => \A u \in Threads : Slot(u)' # Slot(t))
        /\ (Ready /\ last.op = "put" /\ last.thread = t /\ last.ok /\ Step(t, {"take"}))
           => (last'.ok /\ last'.val = last.val)]_vars

\* put(w) has replaced a box v that nothing refers to any more.
C16_Witness ==
    /\ last.op = "put" /\ last.ok /\ last.val \in Addrs
    /\ Slot(last.thread) = last.val
    /\ \E v \in Addrs \ {last.val} :
         /\ heap[v] # FREE
         /\ \A u \in Threads : v \notin held[u] /\ value_cell[u] # v /\ Slot(u) # v

\* C17: while another thread is inside init() (before or after tls::create),
\* exists() and try_unsafe_borrow() on a thread that has stored nothing and
\* does not hold the lock return false / None, do not abort and write nothing.
C17_BenignKeyRace ==
    [][\A t \in Threads :
        (/\ Step(t, {"exists", "try_unsafe_borrow"})
         /\ \E u \in Threads \ {t} : pc[u] \in InitPcs
         /\ LOCK.holder # t
         /\ \A k \in Keys : tlsData[k][t] = NULL)
        => /\ last'.ok /\ ~aborted'
           /\ ~last'.some /\ last'.val = NULL
           /\ keyState' = keyState /\ tlsData' = tlsData]_vars

\* The reader ran between tls::create and INITIALIZED = true of the other
\* thread: it saw the key.
C17_Witness ==
    /\ last.op \in {"exists", "try_unsafe_borrow"} /\ last.ok /\ ~last.some
    /\ RT_TLS_KEY # NoKey /\ ~INITIALIZED /\ destroyCount = 0
    /\ \E u \in Threads \ {last.thread} : pc[u] = "init_created"

C19_FlagKeyAgreement ==
    ((\A t \in Threads : pc[t] \notin InitPcs) /\ ~overlapped)
    => (INITIALIZED <=> RT_TLS_KEY # NoKey)

\* C20 as written: under safe use every box has exactly one owner in every
\* reachable state (here on the native backend, where no call returns a null
\* box).
C20_OneOwner ==
    backend = "native"
    => \A a \in Addrs : heap[a] # FREE => Cardinality(Owners(a)) = 1

\* C20 amended: under safe use no box ever has two owners, so no box is in the
\* slot while a caller or a running callback owns it; and a box has exactly
\* one owner until the put of borrow overwrites it, which happens when the
\* callback left it in the slot.
C20_AtMostOneOwner ==
    [][\A a \in Addrs :
        /\ heap'[a] # FREE => Cardinality(Owners(a)') <= 1
        /\ (heap[a] # FREE /\ Cardinality(Owners(a)) = 1 /\ Cardinality(Owners(a)') # 1)
           => /\ last'.op \in {"borrow", "borrow_unwind"}
              /\ pc[last'.thread] = "callback"
              /\ Slot(last'.thread) = a
              /\ Owners(a)' = {}
        /\ (heap[a] = FREE /\ heap'[a] # FREE)
           => (last'.op = "put" /\ Owners(a)' = {<<"slot", last'.thread>>})]_vars

\* A box is in the slot, put back by borrow, and another one is with the
\* caller, taken out earlier.
C20_Witness ==
    /\ last.op = "borrow" /\ last.ok /\ last.val \in Addrs
    /\ Owners(last.val) = {<<"slot", last.thread>>}
    /\ \E b \in Addrs \ {last.val} :
         heap[b] # FREE /\ Owners(b) = {<<"held", last.thread>>}

====
